---- MODULE Spec2Model ----
(***************************************************************************)
(* A model of lib/nefile.py: the NE ("New Executable") reader.  The state  *)
(* is the NE instance under construction, one action per step of            *)
(* NE.__parse__, plus the accessors get_segment_data, retrieve_flags and    *)
(* the flag loop of dump_info.  Byte strings are sequences of 0..255; the   *)
(* Python index i is the TLA+ index i+1.                                    *)
(***************************************************************************)
EXTENDS Integers, Sequences, FiniteSets, TLC

VARIABLES fname, bytes, hasData, data, pc, exc,
          DOS_HEADER, NE_HEADER, ne_headers_offset,
          imported_name_table, imported_name_table_offset,
          module_reference_table, segmentTable, relocData, i,
          readHi, raisedAt, seg_nr, segData,
          itemsOrder, flagsArg, segment_flags, flags

vars == <<fname, bytes, hasData, data, pc, exc,
          DOS_HEADER, NE_HEADER, ne_headers_offset,
          imported_name_table, imported_name_table_offset,
          module_reference_table, segmentTable, relocData, i,
          readHi, raisedAt, seg_nr, segData,
          itemsOrder, flagsArg, segment_flags, flags>>

(***************************************************************************)
(* Bounds of the input images.                                             *)
(***************************************************************************)
MaxSegs == 2
MaxMods == 3
MaxReloc == 2

(***************************************************************************)
(* Program constants.                                                      *)
(***************************************************************************)
\* 0x5A4D
IMAGE_DOS_SIGNATURE == 23117
\* 0x454E
IMAGE_NE_SIGNATURE == 17742

Min(a, b) == IF a < b THEN a ELSE b
Max(a, b) == IF a > b THEN a ELSE b

(***************************************************************************)
(* The structure formats, as declared: a sequence of <<type, name>>.       *)
(***************************************************************************)
IMAGE_DOS_HEADER_format ==
  << <<"H", "e_magic">>, <<"H", "e_cblp">>, <<"H", "e_cp">>,
     <<"H", "e_crlc">>, <<"H", "e_cparhdr">>, <<"H", "e_minalloc">>,
     <<"H", "e_maxalloc">>, <<"H", "e_ss">>, <<"H", "e_sp">>, <<"H", "e_csum">>,
     <<"H", "e_ip">>, <<"H", "e_cs">>, <<"H", "e_lfarlc">>, <<"H", "e_ovno">>,
     <<"8s", "e_res">>, <<"H", "e_oemid">>, <<"H", "e_oeminfo">>,
     <<"20s", "e_res2">>, <<"L", "e_lfanew">> >>

IMAGE_NE_SIG_format == << <<"H", "Signature">> >>

IMAGE_NE_HEADER_format ==
  << <<"H", "Signature">>, <<"B", "LinkerVersion">>, <<"B", "LinkerRevision">>,
     <<"H", "EntryTableOffset">>, <<"H", "EntryTableSize">>,
     <<"I", "FileLoadCRC">>, <<"B", "ProgramFlags">>, <<"B", "ApplicationFlags">>,
     <<"H", "AutoDataSegmentIndex">>, <<"H", "InitialLocalHeapSize">>,
     <<"H", "InitialStackSize">>,
     <<"H", "InitialIP">>, <<"H", "InitialCS">>, <<"H", "InitialSP">>,
     <<"H", "InitialSS">>,
     <<"H", "SegmentTableEntryCount">>, <<"H", "ModuleTableEntryCount">>,
     <<"H", "NonresidentNameTableSize">>, <<"H", "SegmentTableOffset">>,
     <<"H", "ResourceTableOffset">>, <<"H", "ResidentNameTableOffset">>,
     <<"H", "ModuleReferenceTableOffset">>, <<"H", "ImportTableOffset">>,
     <<"I", "NonResidentTableOffset">>, <<"H", "MovableEntryPointCount">>,
     <<"H", "Aligment">>, <<"H", "ReservedSegmentCount">>, <<"B", "TargetOS">>,
     <<"B", "MiscFlags">>, <<"H", "FastLoadOffset">>, <<"H", "FastLoadSize">>,
     <<"H", "Reserved">>, <<"B", "WindowsRevision">>, <<"B", "WindowsVersion">> >>

IMAGE_SEGMENT_HEADER_format ==
  << <<"H", "Offset">>, <<"H", "Length">>, <<"H", "Flags">>,
     <<"H", "MinAllocSize">> >>

IMAGE_RELOC_DATA_format ==
  << <<"B", "AddressType">>, <<"B", "RelocType">>, <<"H", "Offset">>,
     <<"H", "Target1">>, <<"H", "Target2">> >>

(***************************************************************************)
(* The structure decoder (Structure): fixed-width little-endian fields in  *)
(* declaration order, without padding.                                     *)
(***************************************************************************)
IsBlob(t) == t \in {"8s", "20s"}

TypeSize(t) ==
  CASE t = "B" -> 1
    [] t = "H" -> 2
    [] t \in {"I", "L"} -> 4
    [] t = "8s" -> 8
    [] t = "20s" -> 20

RECURSIVE SizeUpTo(_, _)
SizeUpTo(format, k) ==
  IF k = 0 THEN 0 ELSE SizeUpTo(format, k - 1) + TypeSize(format[k][1])

sizeof(format) == SizeUpTo(format, Len(format))

FieldIndex(format, name) == CHOOSE k \in DOMAIN format : format[k][2] = name

\* The unsigned little-endian integer in the w bytes of d from offset off.
RECURSIVE LE(_, _, _)
LE(d, off, w) == IF w = 0 THEN 0 ELSE d[off + 1] + 256 * LE(d, off + 1, w - 1)

Unpack(format, d, file_offset) ==
  [f \in {format[k][2] : k \in DOMAIN format} \cup {"file_offset"} |->
     IF f = "file_offset" THEN file_offset
     ELSE LET k == FieldIndex(format, f)
              t == format[k][1]
              off == SizeUpTo(format, k - 1)
          IN  IF IsBlob(t) THEN SubSeq(d, off + 1, off + TypeSize(t))
              ELSE LE(d, off, TypeSize(t))]

(***************************************************************************)
(* Python values: None, and the slices of a byte string.                   *)
(***************************************************************************)
None == [isNone |-> TRUE]
Some(v) == [isNone |-> FALSE, val |-> v]

\* d[a:b] for 0 <= a, 0 <= b: both ends are clipped to the string.
Slice(d, a, b) == SubSeq(d, Min(a, Len(d)) + 1, Min(b, Len(d)))

\* As SliceFrom, the offset forgotten.
SliceFrom_whole(d, a) == d

\* d[a:]
SliceFrom(d, a) == SubSeq(d, Min(a, Len(d)) + 1, Len(d))

\* The end of the bytes a slice d[a:b] takes from d.
SliceEnd(d, a, b) == IF Min(a, Len(d)) < Min(b, Len(d)) THEN Min(b, Len(d)) ELSE 0

(***************************************************************************)
(* NE.__unpack_data__: None when the data is shorter than the structure.   *)
(***************************************************************************)
unpack_data(format, d, file_offset) ==
  IF Len(d) < sizeof(format) THEN None
  ELSE Some(Unpack(format, d, file_offset))

(***************************************************************************)
(* struct.unpack for the formats __parse__ uses: the string must have      *)
(* exactly the format's size, or struct.error is raised (None here).       *)
(***************************************************************************)
\* struct.unpack('B', s)
unpack_B(s) == IF Len(s) # 1 THEN None ELSE Some(s[1])

\* struct.unpack('<H', s)
unpack_H(s) == IF Len(s) # 2 THEN None ELSE Some(LE(s, 0, 2))

\* struct.unpack('<%dH' % count, s)
unpack_nH(count, s) ==
  IF Len(s) # 2 * count THEN None
  ELSE Some([k \in 1..count |-> LE(s, 2 * (k - 1), 2)])

\* struct.unpack('%dp' % size, s): a Pascal string, the first byte is the
\* length of the payload, at most size - 1 bytes of it are kept.
unpack_p(size, s) ==
  IF Len(s) # size THEN None
  ELSE Some(SubSeq(s, 2, 1 + Min(s[1], size - 1)))

(***************************************************************************)
(* The input images: a well-formed NE file laid out for the bounds, with   *)
(* chosen header fields, cut at every length.                              *)
(***************************************************************************)
LEBytes(v, w) == [k \in 1..w |-> (v \div (256 ^ (k - 1))) % 256]

Zeros(n) == [k \in 1..n |-> 0]

RECURSIVE Flatten(_)
Flatten(ss) == IF ss = <<>> THEN <<>> ELSE Head(ss) \o Flatten(Tail(ss))

\* The bytes of a structure whose fields are those of rec, the others zero.
Pack(format, rec) ==
  Flatten([k \in DOMAIN format |->
     LET t == format[k][1]
         name == format[k][2]
     IN  IF name \in DOMAIN rec
         THEN IF IsBlob(t) THEN rec[name] ELSE LEBytes(rec[name], TypeSize(t))
         ELSE Zeros(TypeSize(t))])

RoundUp(n, unit) == ((n + unit - 1) \div unit) * unit

\* Where the image holds its NE header, and its tables relative to it.
NeAt == sizeof(IMAGE_DOS_HEADER_format)
SegTabRel == sizeof(IMAGE_NE_HEADER_format)
ModRefRel == SegTabRel + sizeof(IMAGE_SEGMENT_HEADER_format) * MaxSegs
ImpRel == ModRefRel + 2 * MaxMods

\* Imported name j: two bytes (the first of them zero), or none for odd j.
NameLen(j) == IF j % 2 = 1 THEN 0 ELSE 2
NameBytes(j) == <<NameLen(j)>> \o [k \in 1..NameLen(j) |-> IF k = 1 THEN 0 ELSE 65 + j]
ImpBytes == <<MaxMods>> \o Flatten([j \in 1..MaxMods |-> NameBytes(j - 1)])
ModRefBytes == Flatten([j \in 1..MaxMods |-> LEBytes(j, 2)])

TablesEnd == NeAt + ImpRel + Len(ImpBytes)

SegUnit(q) == 2 ^ q.align
SegStride(q) ==
  RoundUp(q.seglen + 2 + sizeof(IMAGE_RELOC_DATA_format) * MaxReloc, SegUnit(q))
SegAt(q, k) == RoundUp(TablesEnd, SegUnit(q)) + k * SegStride(q)

\* The flags of segment k under pattern p.
\* 256 = RELOC_DATA, 257 = RELOC_DATA|DATA, 3 = DATA|ALLOCATED.
SegFlagsOf(p, k) ==
  CASE p = 0 -> IF k % 2 = 0 THEN 0 ELSE 256
    [] p = 1 -> IF k % 2 = 0 THEN 257 ELSE 3
    [] OTHER -> 256

RelocBytes(k, r) ==
  Pack(IMAGE_RELOC_DATA_format,
       [AddressType |-> r + 1, RelocType |-> k + 1, Offset |-> 16 * k + r,
        Target1 |-> k + 1, Target2 |-> r + 1])

\* Segment k: its data, then the relocation count and MaxReloc entries.
SegBytes(q, k) ==
  LET body == [x \in 1..q.seglen |-> 160 + 16 * k + x]
                \o LEBytes(q.nreloc, 2)
                \o Flatten([r \in 1..MaxReloc |-> RelocBytes(k, r - 1)])
  IN  body \o Zeros(SegStride(q) - Len(body))

SegTabBytes(q) ==
  Flatten([k \in 1..MaxSegs |->
     Pack(IMAGE_SEGMENT_HEADER_format,
          [Offset |-> SegAt(q, k - 1) \div SegUnit(q), Length |-> q.seglen,
           Flags |-> SegFlagsOf(q.pattern, k - 1), MinAllocSize |-> q.seglen])])

Image(q) ==
  Pack(IMAGE_DOS_HEADER_format, [e_magic |-> q.magic, e_lfanew |-> q.lfanew])
  \o Pack(IMAGE_NE_HEADER_format,
          [Signature |-> q.sig, LinkerVersion |-> 5,
           SegmentTableEntryCount |-> q.nseg, ModuleTableEntryCount |-> q.nmod,
           SegmentTableOffset |-> SegTabRel,
           ModuleReferenceTableOffset |-> ModRefRel,
           ImportTableOffset |-> ImpRel, Aligment |-> q.align])
  \o SegTabBytes(q) \o ModRefBytes \o ImpBytes
  \o Zeros(SegAt(q, 0) - TablesEnd)
  \o Flatten([k \in 1..MaxSegs |-> SegBytes(q, k - 1)])

ImageLen == Len(Image([magic |-> 0, lfanew |-> 0, sig |-> 0, nseg |-> 0,
                       nmod |-> 0, pattern |-> 0, nreloc |-> 0,
                       align |-> 2, seglen |-> 3]))

\* Images with a faulty or misplaced header over full tables.
\* 19789 = 0x4D4D ("MM"), 17744 = 0x4550 ("PE").
HeaderParams ==
  [magic : {IMAGE_DOS_SIGNATURE, 19789},
   lfanew : {NeAt, ImageLen, ImageLen + 7},
   sig : {IMAGE_NE_SIGNATURE, 0, 17744},
   nseg : {MaxSegs}, nmod : {MaxMods}, pattern : {0}, nreloc : {MaxReloc},
   align : {2}, seglen : {3}]

\* Images with a well-formed header and chosen table sizes.
TableParams ==
  [magic : {IMAGE_DOS_SIGNATURE}, lfanew : {NeAt}, sig : {IMAGE_NE_SIGNATURE},
   nseg : 0..MaxSegs, nmod : 0..MaxMods, pattern : 0..2, nreloc : 0..MaxReloc,
   align : {2}, seglen : {3}]

(***************************************************************************)
(* The segment flag table and the dictionary NE_SEGFLAGS built from it.    *)
(* A name is the sequence of its characters.                               *)
(***************************************************************************)
NE_SEGFLAGS_ == <<"N", "E", "_", "S", "E", "G", "F", "L", "A", "G", "S", "_">>

ne_segment_flags ==
  << <<NE_SEGFLAGS_ \o <<"D", "A", "T", "A">>, 1>>,
     <<NE_SEGFLAGS_ \o <<"A", "L", "L", "O", "C", "A", "T", "E", "D">>, 2>>,
     <<NE_SEGFLAGS_ \o <<"L", "O", "A", "D", "E", "D">>, 4>>,
     <<NE_SEGFLAGS_ \o <<"I", "T", "E", "R", "A", "T", "E", "D">>, 8>>,
     <<NE_SEGFLAGS_ \o <<"M", "O", "V", "E", "A", "B", "L", "E">>, 16>>,
     <<NE_SEGFLAGS_ \o <<"S", "H", "A", "R", "E", "A", "B", "L", "E">>, 32>>,
     <<NE_SEGFLAGS_ \o <<"P", "R", "E", "L", "O", "A", "D">>, 64>>,
     <<NE_SEGFLAGS_ \o <<"E", "X", "E", "C", "U", "T", "E", "O", "N", "L", "Y">>, 128>>,
     <<NE_SEGFLAGS_ \o <<"R", "E", "A", "D", "O", "N", "L", "Y">>, 128>>,
     <<NE_SEGFLAGS_ \o <<"R", "E", "L", "O", "C", "_", "D", "A", "T", "A">>, 256>>,
     <<NE_SEGFLAGS_ \o <<"S", "E", "L", "F", "L", "O", "A", "D">>, 2048>>,
     <<NE_SEGFLAGS_ \o <<"D", "I", "S", "C", "A", "R", "D", "A", "B", "L", "E">>, 4096>>,
     <<NE_SEGFLAGS_ \o <<"3", "2", "B", "I", "T">>, 8192>> >>

\* A dictionary item: a name key with its number (isStr), or a number key
\* with its name.
StrItem(e) == [isStr |-> TRUE, name |-> e[1], value |-> e[2]]
IntItem(e) == [isStr |-> FALSE, name |-> e[1], value |-> e[2]]

SameKey(a, b) ==
  /\ a.isStr = b.isStr
  /\ IF a.isStr THEN a.name = b.name ELSE a.value = b.value

\* dict(list): of the pairs with one key the last one stays.
dict(list) ==
  LET keep == {j \in DOMAIN list :
                 \A j2 \in DOMAIN list : j2 > j => ~SameKey(list[j], list[j2])}
      F[n \in 0..Len(list)] ==
        IF n = 0 THEN <<>>
        ELSE IF n \in keep THEN Append(F[n - 1], list[n]) ELSE F[n - 1]
  IN  F[Len(list)]

NE_SEGFLAGS ==
  dict([k \in DOMAIN ne_segment_flags |-> IntItem(ne_segment_flags[k])]
       \o [k \in DOMAIN ne_segment_flags |-> StrItem(ne_segment_flags[k])])

\* flag_dict[name]
DictGet(flag_dict, nm) ==
  flag_dict[CHOOSE k \in DOMAIN flag_dict :
              flag_dict[k].isStr /\ flag_dict[k].name = nm].value

\* a & b
RECURSIVE BitAnd(_, _)
BitAnd(a, b) ==
  IF a = 0 \/ b = 0 THEN 0
  ELSE (a % 2) * (b % 2) + 2 * BitAnd(a \div 2, b \div 2)

\* a << n
ShiftLeft(a, n) == a * (2 ^ n)

(***************************************************************************)
(* NE(name, data): the state before __parse__ has run.  An image arrives   *)
(* as the content of the file named (fname) or as the data argument.       *)
(***************************************************************************)
flagVars == <<itemsOrder, flagsArg, segment_flags, flags>>
inputVars == <<fname, bytes>>
tableVars == <<imported_name_table, imported_name_table_offset,
               module_reference_table, segmentTable, relocData>>
accessVars == <<seg_nr, segData>>

Unparsed ==
  /\ hasData = FALSE
  /\ data = <<>>
  /\ exc = "none"
  /\ raisedAt = "none"
  /\ DOS_HEADER = None
  /\ NE_HEADER = None
  /\ ne_headers_offset = 0
  /\ imported_name_table = <<>>
  /\ imported_name_table_offset = 0
  /\ module_reference_table = <<>>
  /\ segmentTable = <<>>
  /\ relocData = <<>>
  /\ i = 0
  /\ readHi = 0
  /\ seg_nr = 0
  /\ segData = None

Init ==
  /\ \/ \E q \in HeaderParams : \E n \in 0..ImageLen :
          /\ bytes = SubSeq(Image(q), 1, n)
          /\ fname \in BOOLEAN
     \/ \E q \in TableParams : \E n \in (NeAt + SegTabRel)..ImageLen :
          /\ bytes = SubSeq(Image(q), 1, n)
          /\ fname = FALSE
  /\ pc = "load"
  /\ Unparsed
  /\ itemsOrder = <<>>
  /\ flagsArg = 0
  /\ segment_flags = <<>>
  /\ flags = <<>>

\* raise kind
Raise(kind) ==
  /\ pc' = "raised"
  /\ exc' = kind
  /\ raisedAt' = pc

NoRaise == UNCHANGED <<exc, raisedAt>>

\* lines 115-120: self.__data__ is set from the file, or from a data that
\* is not empty; else it stays unset.
Load ==
  /\ pc = "load"
  /\ hasData' = (fname \/ bytes # <<>>)
  /\ data' = IF fname \/ bytes # <<>> THEN bytes ELSE <<>>
  /\ pc' = "dos_header"
  /\ NoRaise
  /\ UNCHANGED <<inputVars, DOS_HEADER, NE_HEADER, ne_headers_offset, tableVars,
                 i, readHi, accessVars, flagVars>>

\* As DosMagicNotFound, the magic not compared.
DosMagicNotFound_unchecked(header) == header.isNone

DosMagicNotFound(header) ==
  header.isNone \/ header.val.e_magic # IMAGE_DOS_SIGNATURE

\* lines 122-127
ParseDosHeader ==
  /\ pc = "dos_header"
  /\ IF ~hasData
     THEN /\ Raise("AttributeError")
          /\ UNCHANGED <<DOS_HEADER, readHi>>
     ELSE LET header == unpack_data(IMAGE_DOS_HEADER_format, data, 0)
          IN  /\ DOS_HEADER' = header
              /\ readHi' = Max(readHi, SliceEnd(data, 0, Len(data)))
              /\ IF DosMagicNotFound(header)
                 THEN Raise("NEFormatError: DOS Header magic not found.")
                 ELSE pc' = "ne_sig" /\ NoRaise
  /\ UNCHANGED <<inputVars, hasData, data, NE_HEADER, ne_headers_offset,
                 tableVars, i, accessVars, flagVars>>

NeSignatureNotFound(NE_SIG) == NE_SIG.isNone \/ NE_SIG.val.Signature = 0

\* lines 129-140
ParseNeSignature ==
  /\ pc = "ne_sig"
  /\ LET offset == DOS_HEADER.val.e_lfanew
         NE_SIG == unpack_data(IMAGE_NE_SIG_format, SliceFrom(data, offset), offset)
     IN  /\ ne_headers_offset' = offset
         /\ readHi' = Max(readHi, SliceEnd(data, offset, Len(data)))
         /\ IF NeSignatureNotFound(NE_SIG)
            THEN Raise("NEFormatError: NE Signature not found.")
            ELSE IF NE_SIG.val.Signature # IMAGE_NE_SIGNATURE
            THEN Raise("NEFormatError: Invalid NE signature.")
            ELSE pc' = "ne_header" /\ NoRaise
  /\ UNCHANGED <<inputVars, hasData, data, DOS_HEADER, NE_HEADER, tableVars,
                 i, accessVars, flagVars>>

\* As ImportedNameTableStart, the leading byte not skipped.
ImportedNameTableStart_noskip(header, offset) == header.ImportTableOffset + offset

\* line 151
ImportedNameTableStart(header, offset) == header.ImportTableOffset + offset + 1

\* lines 142-151
ParseNeHeader ==
  /\ pc = "ne_header"
  /\ LET header == unpack_data(IMAGE_NE_HEADER_format,
                               SliceFrom(data, ne_headers_offset), ne_headers_offset)
     IN  /\ NE_HEADER' = header
         /\ readHi' = Max(readHi, SliceEnd(data, ne_headers_offset, Len(data)))
         /\ IF header.isNone
            THEN /\ Raise("NEFormatError: NE Header missing")
                 /\ UNCHANGED <<imported_name_table, imported_name_table_offset, i>>
            ELSE /\ imported_name_table' = <<>>
                 /\ imported_name_table_offset' =
                      ImportedNameTableStart(header.val, ne_headers_offset)
                 /\ i' = 0
                 /\ pc' = "imported_names"
                 /\ NoRaise
  /\ UNCHANGED <<inputVars, hasData, data, DOS_HEADER, ne_headers_offset,
                 module_reference_table, segmentTable, relocData,
                 accessVars, flagVars>>

\* lines 152-156: one turn of the loop over the imported names
ParseImportedName ==
  /\ pc = "imported_names"
  /\ i < NE_HEADER.val.ModuleTableEntryCount
  /\ LET offset == imported_name_table_offset
         string_lenght == unpack_B(Slice(data, offset, offset + 1))
     IN  IF string_lenght.isNone
         THEN /\ Raise("struct.error")
              /\ readHi' = Max(readHi, SliceEnd(data, offset, offset + 1))
              /\ UNCHANGED <<imported_name_table, imported_name_table_offset, i>>
         ELSE LET n == string_lenght.val
                  imported_name == unpack_p(n + 1, Slice(data, offset, offset + 1 + n))
              IN  /\ readHi' = Max(readHi, SliceEnd(data, offset, offset + 1 + n))
                  /\ IF imported_name.isNone
                     THEN /\ Raise("struct.error")
                          /\ UNCHANGED <<imported_name_table,
                                         imported_name_table_offset, i>>
                     ELSE /\ imported_name_table' =
                               Append(imported_name_table, imported_name.val)
                          /\ imported_name_table_offset' = offset + n + 1
                          /\ i' = i + 1
                          /\ pc' = pc
                          /\ NoRaise
  /\ UNCHANGED <<inputVars, hasData, data, DOS_HEADER, NE_HEADER, ne_headers_offset,
                 module_reference_table, segmentTable, relocData,
                 accessVars, flagVars>>

\* lines 158-165: after the loop, the module reference table in one read
ParseModuleReferenceTable ==
  /\ pc = "imported_names"
  /\ i = NE_HEADER.val.ModuleTableEntryCount
  /\ LET offset == NE_HEADER.val.ModuleReferenceTableOffset + ne_headers_offset
         count == NE_HEADER.val.ModuleTableEntryCount
         table == unpack_nH(count, Slice(data, offset, offset + count * 2))
     IN  /\ readHi' = Max(readHi, SliceEnd(data, offset, offset + count * 2))
         /\ IF table.isNone
            THEN /\ Raise("struct.error")
                 /\ UNCHANGED <<module_reference_table, segmentTable, i>>
            ELSE /\ module_reference_table' = table.val
                 /\ segmentTable' = <<>>
                 /\ i' = 0
                 /\ pc' = "segments"
                 /\ NoRaise
  /\ UNCHANGED <<inputVars, hasData, data, DOS_HEADER, NE_HEADER, ne_headers_offset,
                 imported_name_table, imported_name_table_offset, relocData,
                 accessVars, flagVars>>

\* As SegmentTableStart, the offset taken from the start of the file.
SegmentTableStart_absolute(header, offset) == header.SegmentTableOffset

\* line 163
SegmentTableStart(header, offset) == header.SegmentTableOffset + offset

\* lines 167-172: one turn of the loop over the segment table
ParseSegment ==
  /\ pc = "segments"
  /\ i < NE_HEADER.val.SegmentTableEntryCount
  /\ LET segment_table_offset == SegmentTableStart(NE_HEADER.val, ne_headers_offset)
         segment == unpack_data(IMAGE_SEGMENT_HEADER_format,
                                SliceFrom(data, segment_table_offset + 8 * i),
                                segment_table_offset + 8 * i)
     IN  /\ segmentTable' = Append(segmentTable, segment)
         /\ readHi' = Max(readHi, SliceEnd(data, segment_table_offset + 8 * i, Len(data)))
  /\ i' = i + 1
  /\ pc' = pc
  /\ NoRaise
  /\ UNCHANGED <<inputVars, hasData, data, DOS_HEADER, NE_HEADER, ne_headers_offset,
                 imported_name_table, imported_name_table_offset,
                 module_reference_table, relocData, accessVars, flagVars>>

\* line 175: after the loop
BeginRelocData ==
  /\ pc = "segments"
  /\ i = NE_HEADER.val.SegmentTableEntryCount
  /\ relocData' = <<>>
  /\ i' = 0
  /\ pc' = "reloc"
  /\ NoRaise
  /\ UNCHANGED <<inputVars, hasData, data, DOS_HEADER, NE_HEADER, ne_headers_offset,
                 imported_name_table, imported_name_table_offset,
                 module_reference_table, segmentTable, readHi, accessVars, flagVars>>

\* lines 183-188: the reloadDataCount entries from relocDataOffset + 2 on
RelocTable(d, relocDataOffset, reloadDataCount) ==
  [r \in 1..reloadDataCount |->
     unpack_data(IMAGE_RELOC_DATA_format,
                 SliceFrom(d, relocDataOffset + 2 + (r - 1) * 8),
                 relocDataOffset + 2 + (r - 1) * 8)]

\* As HasRelocData, any flag taken for RELOC_DATA.
HasRelocData_anyflag(segmentTableEntry) == segmentTableEntry.Flags # 0

\* line 178
HasRelocData(segmentTableEntry) ==
  BitAnd(segmentTableEntry.Flags,
         DictGet(NE_SEGFLAGS, NE_SEGFLAGS_ \o <<"R", "E", "L", "O", "C", "_", "D", "A", "T", "A">>)) # 0

\* lines 177-191: one turn of the loop over segmentTable
ParseRelocData ==
  /\ pc = "reloc"
  /\ i < Len(segmentTable)
  /\ LET segmentTableEntry == segmentTable[i + 1]
     IN  IF segmentTableEntry.isNone
         THEN /\ Raise("AttributeError")
              /\ UNCHANGED <<relocData, i, readHi>>
         ELSE IF HasRelocData(segmentTableEntry.val)
         THEN LET segmentOffset == ShiftLeft(segmentTableEntry.val.Offset,
                                             NE_HEADER.val.Aligment)
                  relocDataOffset == segmentOffset + segmentTableEntry.val.Length
                  reloadDataCount ==
                    unpack_H(Slice(data, relocDataOffset, relocDataOffset + 2))
              IN  IF reloadDataCount.isNone
                  THEN /\ Raise("struct.error")
                       /\ readHi' = Max(readHi, SliceEnd(data, relocDataOffset,
                                                         relocDataOffset + 2))
                       /\ UNCHANGED <<relocData, i>>
                  ELSE /\ relocData' =
                            Append(relocData,
                                   Some(RelocTable(data, relocDataOffset,
                                                   reloadDataCount.val)))
                       /\ readHi' =
                            Max(readHi,
                                IF reloadDataCount.val = 0
                                THEN SliceEnd(data, relocDataOffset, relocDataOffset + 2)
                                ELSE SliceEnd(data, relocDataOffset, Len(data)))
                       /\ i' = i + 1
                       /\ pc' = pc
                       /\ NoRaise
         ELSE /\ relocData' = Append(relocData, None)
              /\ i' = i + 1
              /\ pc' = pc
              /\ NoRaise
              /\ UNCHANGED readHi
  /\ UNCHANGED <<inputVars, hasData, data, DOS_HEADER, NE_HEADER, ne_headers_offset,
                 imported_name_table, imported_name_table_offset,
                 module_reference_table, segmentTable, accessVars, flagVars>>

\* __parse__ returns: the NE object is constructed
Return ==
  /\ pc = "reloc"
  /\ i = Len(segmentTable)
  /\ pc' = "done"
  /\ NoRaise
  /\ UNCHANGED <<inputVars, hasData, data, DOS_HEADER, NE_HEADER, ne_headers_offset,
                 tableVars, i, readHi, accessVars, flagVars>>

\* lines 193-195
get_segment_data(d, table, header, nr) ==
  LET offset == ShiftLeft(table[nr + 1].val.Offset, header.val.Aligment)
  IN  Slice(d, offset, offset + table[nr + 1].val.Length)

\* a call of get_segment_data on the constructed object, any valid index
GetSegmentData ==
  /\ pc = "done"
  /\ \E nr \in 0..(Len(segmentTable) - 1) :
       /\ seg_nr' = nr
       /\ segData' = Some(get_segment_data(data, segmentTable, NE_HEADER, nr))
  /\ pc' = pc
  /\ NoRaise
  /\ UNCHANGED <<inputVars, hasData, data, DOS_HEADER, NE_HEADER, ne_headers_offset,
                 tableVars, i, readHi, flagVars>>

Next ==
  \/ Load
  \/ ParseDosHeader
  \/ ParseNeSignature
  \/ ParseNeHeader
  \/ ParseImportedName
  \/ ParseModuleReferenceTable
  \/ ParseSegment
  \/ BeginRelocData
  \/ ParseRelocData
  \/ Return
  \/ GetSegmentData

Spec == Init /\ [][Next]_vars

(***************************************************************************)
(* The flag names of a segment, as dump_info lists them.                   *)
(***************************************************************************)
\* The orders flag_dict.items() can have: that of insertion, its reverse,
\* and that of the hash table of a CPython 2.7 build.
DictOrders ==
  { [k \in 1..25 |-> k],
    [k \in 1..25 |-> 26 - k],
    <<11, 1, 2, 21, 3, 12, 22, 4, 8, 9, 5, 19, 24, 6, 20, 25, 7, 17, 10, 23,
      18, 14, 15, 16, 13>> }

\* flag_dict.items()
items(flag_dict, order) == [k \in DOMAIN order |-> flag_dict[order[k]]]

\* s.startswith(prefix)
startswith(s, prefix) ==
  Len(s) >= Len(prefix) /\ SubSeq(s, 1, Len(prefix)) = prefix

\* lines 198-206
retrieve_flags(dict_items, flag_filter) ==
  LET sel == SelectSeq(dict_items,
                       LAMBDA f : f.isStr /\ startswith(f.name, flag_filter))
  IN  [k \in DOMAIN sel |->
         <<SubSeq(sel[k].name, Len(flag_filter) + 1, Len(sel[k].name)),
           sel[k].value>>]

\* lines 242-245
FlagNames(flag_list, Flags) ==
  LET sel == SelectSeq(flag_list, LAMBDA flag : BitAnd(Flags, flag[2]) # 0)
  IN  [k \in DOMAIN sel |-> sel[k][1]]

\* The flag words tried: every combination of five of the bits.
FlagWords ==
  {a + b + c + d + e : a \in {0, 1}, b \in {0, 2}, c \in {0, 4},
                       d \in {0, 128}, e \in {0, 256}}

InitFlags ==
  /\ fname = FALSE
  /\ bytes = <<>>
  /\ Unparsed
  /\ pc = "dump_info"
  /\ itemsOrder \in DictOrders
  /\ flagsArg \in FlagWords
  /\ segment_flags = <<>>
  /\ flags = <<>>

parseVars == <<fname, bytes, hasData, data, exc, DOS_HEADER, NE_HEADER,
               ne_headers_offset, imported_name_table, imported_name_table_offset,
               module_reference_table, segmentTable, relocData, i,
               readHi, raisedAt, seg_nr, segData>>

\* line 238
RetrieveFlags ==
  /\ pc = "dump_info"
  /\ segment_flags' = retrieve_flags(items(NE_SEGFLAGS, itemsOrder), NE_SEGFLAGS_)
  /\ pc' = "dump_flags"
  /\ UNCHANGED <<parseVars, itemsOrder, flagsArg, flags>>

\* lines 242-246, for a segment whose Flags are flagsArg
DumpFlags ==
  /\ pc = "dump_flags"
  /\ flags' = FlagNames(segment_flags, flagsArg)
  /\ pc' = "dumped"
  /\ UNCHANGED <<parseVars, itemsOrder, flagsArg, segment_flags>>

NextFlags ==
  \/ RetrieveFlags
  \/ DumpFlags

SpecFlags == InitFlags /\ [][NextFlags]_vars

(***************************************************************************)
(* The properties.  They read the input through B, U16 and U32, which      *)
(* index the bytes given to NE() from 0; a byte past the end reads as 0.   *)
(***************************************************************************)
B(p) == IF p < Len(bytes) THEN bytes[p + 1] ELSE 0
U16(p) == B(p) + 256 * B(p + 1)
U32(p) == U16(p) + 65536 * U16(p + 2)

\* The error kind an exception stands for.
KindOf(e) ==
  CASE e = "NEFormatError: DOS Header magic not found." -> "BadDosMagic"
    [] e = "NEFormatError: NE Signature not found." -> "MissingNeSignature"
    [] e = "NEFormatError: Invalid NE signature." -> "BadNeSignature"
    [] e = "NEFormatError: NE Header missing" -> "MissingNeHeader"
    [] OTHER -> "none"

TableStages == {"imported_names", "segments", "reloc"}

\* The stub header is well-formed: 64 bytes, the first two "MZ".
DosHeaderOk == Len(bytes) >= 64 /\ B(0) = 77 /\ B(1) = 90

\* C1: after a successful parse relocData is as long as segmentTable, and
\* relocData[i] is None exactly when bit 0x0100 of segmentTable[i].Flags is
\* unset, a relocation table otherwise.
C1_RelocDataAligned ==
  pc = "done" =>
    /\ Len(relocData) = Len(segmentTable)
    /\ \A k \in DOMAIN segmentTable :
         /\ ~segmentTable[k].isNone
         /\ relocData[k].isNone <=> (segmentTable[k].val.Flags \div 256) % 2 = 0

\* C1 witness: two segments parsed, the first without and the second with
\* relocation data.
C1_Witness ==
  /\ pc = "done"
  /\ Len(segmentTable) >= 2
  /\ segmentTable[1].val.Flags = 0 /\ relocData[1].isNone
  /\ segmentTable[2].val.Flags = 256 /\ ~relocData[2].isNone

\* C2: after a successful parse the relocation table of every segment with
\* RELOC_DATA holds exactly the k records counted at (Offset << Aligment) +
\* Length, record j decoded from the 8 bytes at that place + 2 + 8*j, and none
\* of them is missing.
C2_RelocTableComplete ==
  pc = "done" =>
    \A k \in DOMAIN segmentTable :
      (segmentTable[k].val.Flags \div 256) % 2 = 1 =>
        LET at == segmentTable[k].val.Offset * (2 ^ U16(U32(60) + 50))
                    + segmentTable[k].val.Length
        IN  /\ ~relocData[k].isNone
            /\ Len(relocData[k].val) = U16(at)
            /\ \A r \in DOMAIN relocData[k].val :
                 /\ ~relocData[k].val[r].isNone
                 /\ at + 2 + 8 * r <= Len(bytes)
                 /\ relocData[k].val[r].val.AddressType = B(at + 2 + 8 * (r - 1))
                 /\ relocData[k].val[r].val.RelocType = B(at + 3 + 8 * (r - 1))
                 /\ relocData[k].val[r].val.Offset = U16(at + 4 + 8 * (r - 1))
                 /\ relocData[k].val[r].val.Target1 = U16(at + 6 + 8 * (r - 1))
                 /\ relocData[k].val[r].val.Target2 = U16(at + 8 + 8 * (r - 1))

\* C3: get_segment_data(i) returns segmentTable[i].Length bytes, those from
\* segmentTable[i].Offset << Aligment on, also when that range passes the end
\* of the buffer.
C3_SegmentDataLength ==
  (pc = "done" /\ ~segData.isNone) =>
    LET at == segmentTable[seg_nr + 1].val.Offset * (2 ^ U16(U32(60) + 50))
    IN  /\ Len(segData.val) = segmentTable[seg_nr + 1].val.Length
        /\ \A x \in DOMAIN segData.val : segData.val[x] = B(at + x - 1)

\* C4: a buffer shorter than 64 bytes, the empty one included, fails with
\* 'DOS Header magic not found.' before any table parser runs.
C4_ShortBufferFails ==
  Len(bytes) < 64 =>
    /\ pc \notin TableStages \cup {"done"}
    /\ pc = "raised" =>
         /\ exc = "NEFormatError: DOS Header magic not found."
         /\ raisedAt = "dos_header"

\* The case of C5: a well-formed stub header whose e_lfanew is at or past the
\* end of the buffer.
C5_Case == DosHeaderOk /\ U32(60) >= Len(bytes)

\* C5 as stated: in that case the parse fails with OutOfBounds, and no byte
\* outside the buffer is read.
C5_OutOfBounds ==
  (C5_Case /\ pc = "raised") =>
    /\ KindOf(exc) = "OutOfBounds"
    /\ readHi <= Len(bytes)

\* C5 amended: in that case the parse fails at the NE signature, with 'NE
\* Signature not found.' (MissingNeSignature), before the NE header or any
\* table is read, and no byte outside the buffer is read.
C5_MissingNeSignature ==
  C5_Case =>
    /\ pc \in {"load", "dos_header", "ne_sig", "raised"}
    /\ pc = "raised" =>
         /\ KindOf(exc) = "MissingNeSignature"
         /\ raisedAt = "ne_sig"
    /\ readHi <= Len(bytes)

\* C5 witness: such a parse has failed, with e_lfanew exactly the length.
C5_Witness == C5_Case /\ pc = "raised" /\ U32(60) = Len(bytes)

\* C6: a table read that passes the end of the buffer aborts the parse with a
\* declared format error: no constructed object holds None in place of a
\* truncated structure, and no other exception leaves the table parsers.
C6_TruncationAborts ==
  /\ pc = "done" =>
       /\ \A k \in DOMAIN segmentTable : ~segmentTable[k].isNone
       /\ \A k \in DOMAIN relocData :
            ~relocData[k].isNone =>
              \A r \in DOMAIN relocData[k].val : ~relocData[k].val[r].isNone
  /\ (pc = "raised" /\ raisedAt \in TableStages) => KindOf(exc) # "none"

\* C7: the header checks come in order.  Two first bytes that are not "MZ"
\* fail with BadDosMagic before e_lfanew is used; then, the stub header being
\* well-formed, a signature at e_lfanew that is absent or zero fails with
\* MissingNeSignature, one that is neither zero nor 0x454E with BadNeSignature,
\* and fewer than 0x40 bytes from e_lfanew with MissingNeHeader; a table is
\* parsed only after all four checks.
C7_HeaderChecksInOrder ==
  LET lfanew == U32(60)
      absent == lfanew + 2 > Len(bytes)
      sig == U16(lfanew)
      FailsWith(stage, kind) ==
        /\ pc \notin TableStages \cup {"done"}
        /\ pc = "raised" => KindOf(exc) = kind /\ raisedAt = stage
  IN  /\ (Len(bytes) >= 2 /\ ~(B(0) = 77 /\ B(1) = 90)) =>
           /\ FailsWith("dos_header", "BadDosMagic")
           /\ pc \notin {"ne_sig", "ne_header"}
           /\ ne_headers_offset = 0
      /\ (DosHeaderOk /\ (absent \/ sig = 0)) =>
           /\ FailsWith("ne_sig", "MissingNeSignature")
           /\ pc # "ne_header"
      /\ (DosHeaderOk /\ ~absent /\ sig # 0 /\ sig # 17742) =>
           /\ FailsWith("ne_sig", "BadNeSignature")
           /\ pc # "ne_header"
      /\ (DosHeaderOk /\ ~absent /\ sig = 17742 /\ Len(bytes) - lfanew < 64) =>
           FailsWith("ne_header", "MissingNeHeader")
      /\ (pc \in TableStages \cup {"done"} \/ raisedAt \in TableStages) =>
           DosHeaderOk /\ ~absent /\ sig = 17742 /\ Len(bytes) - lfanew >= 64

\* C7 witness: the first three checks passed and the fourth failed.
C7_Witness ==
  /\ pc = "raised"
  /\ exc = "NEFormatError: NE Header missing"
  /\ DosHeaderOk /\ U16(U32(60)) = 17742

\* The names of ne_segment_flags whose bit is set in w, in declaration order,
\* without the prefix.
DeclaredNames(w) ==
  LET F[n \in 0..Len(ne_segment_flags)] ==
        IF n = 0 THEN <<>>
        ELSE IF (w \div ne_segment_flags[n][2]) % 2 = 1
             THEN Append(F[n - 1], SubSeq(ne_segment_flags[n][1], 13,
                                          Len(ne_segment_flags[n][1])))
             ELSE F[n - 1]
  IN  F[Len(ne_segment_flags)]

\* C8: the flag names listed for a segment are those whose bit is set, in the
\* declaration order of ne_segment_flags: DATA, ALLOCATED for 0x0003, none for
\* 0x0000.
C8_DeclarationOrder ==
  pc = "dumped" =>
    /\ flags = DeclaredNames(flagsArg)
    /\ flagsArg = 3 => flags = << <<"D", "A", "T", "A">>,
                                  <<"A", "L", "L", "O", "C", "A", "T", "E", "D">> >>
    /\ flagsArg = 0 => flags = <<>>

\* The place of the length byte of imported name j, read from the input.
RECURSIVE NamePos(_)
NamePos(j) ==
  IF j = 0 THEN U32(60) + U16(U32(60) + 42) + 1
  ELSE NamePos(j - 1) + B(NamePos(j - 1)) + 1

\* C9: after a successful parse the imported name table has
\* ModuleTableEntryCount entries, the first length byte at e_lfanew +
\* ImportTableOffset + 1, each next one right after the payload before it, and
\* each payload the n bytes after its length byte, whatever the content.
C9_ImportedNameTable ==
  pc = "done" =>
    /\ Len(imported_name_table) = U16(U32(60) + 30)
    /\ \A j \in 0..(Len(imported_name_table) - 1) :
         /\ NamePos(j) + B(NamePos(j)) < Len(bytes)
         /\ imported_name_table[j + 1] =
              [x \in 1..B(NamePos(j)) |-> B(NamePos(j) + x)]

\* C9 witness: three names parsed, the second one empty, the others with a
\* zero byte in them.
C9_Witness ==
  /\ pc = "done"
  /\ Len(imported_name_table) >= 3
  /\ imported_name_table[1] = <<0, 65>>
  /\ imported_name_table[2] = <<>>
  /\ imported_name_table[3] = <<0, 67>>

\* C10: after a successful parse segmentTable has SegmentTableEntryCount
\* entries, entry i decoded from the 8 bytes at e_lfanew + SegmentTableOffset
\* + 8*i, all of them inside the buffer and none of them None.
C10_SegmentTable ==
  pc = "done" =>
    LET at == U32(60) + U16(U32(60) + 34)
    IN  /\ Len(segmentTable) = U16(U32(60) + 28)
        /\ at + 8 * Len(segmentTable) <= Len(bytes)
        /\ \A k \in DOMAIN segmentTable :
             /\ ~segmentTable[k].isNone
             /\ segmentTable[k].val.Offset = U16(at + 8 * (k - 1))
             /\ segmentTable[k].val.Length = U16(at + 8 * (k - 1) + 2)
             /\ segmentTable[k].val.Flags = U16(at + 8 * (k - 1) + 4)
             /\ segmentTable[k].val.MinAllocSize = U16(at + 8 * (k - 1) + 6)

\* C10 witness: a parse completed with two segments or more.
C10_Witness == pc = "done" /\ Len(segmentTable) >= 2 /\ U16(U32(60) + 28) >= 2

====
